---- MODULE Spec2Model ----
(***************************************************************************)
(* Sensor ingestion of app.py: POST /api/sensor-data                       *)
(* (receive_sensor_data), the delta classification                         *)
(* (calculate_compression_ratio) and the threshold alerts                  *)
(* (check_sensor_alerts), over the sensor_data, alerts, devices and users  *)
(* tables.  The weather lookup of the handler touches none of these and    *)
(* is left out.                                                            *)
(*                                                                         *)
(* Numbers are fixed point, in thousandths: 25.5 is 25500, the threshold   *)
(* 1.0 is 1000.  The Numeric(_, 2) columns keep hundredths, so a stored    *)
(* value is the request's value rounded to a multiple of 10.  Compression  *)
(* ratios are whole percents (0, 65, 85).                                  *)
(***************************************************************************)
EXTENDS Integers, Sequences, FiniteSets, TLC

VARIABLES
    sensor_data,       \* the sensor_data table: committed rows, oldest first
    alerts,            \* the alerts table: committed rows, oldest first
    devices,           \* the devices table: device_id -> last_seen
    clock,             \* datetime.utcnow(), as a counter
    sms_log,           \* the calls of send_sms_notification that returned, with results
    pc,                \* per request: the handler's position
    data,              \* per request: request.get_json()
    last_reading,      \* per request: id of the row the classification read, 0 = None
    failed,            \* per request: the storage steps that raised
    compression,       \* per request: (compression_ratio, is_predicted)
    sensor_record,     \* per request: id of the committed SensorData row, 0 = none
    alerts_to_create,  \* per request: the list built by check_sensor_alerts
    alert_status,      \* per request: how check_sensor_alerts ended ("ok", "no_user",
                       \* "type_error", "query_error", "commit_error"), "none" before
    dispatched,        \* per request: how many alerts of the list the loop has added
    resp,              \* per request: HTTP status returned, 0 = none yet
    returned,          \* per request: the classification in the response body
    completed          \* the requests in the order their responses were returned

vars == <<sensor_data, alerts, devices, clock, sms_log, pc, data, last_reading,
          failed, compression, sensor_record, alerts_to_create, alert_status,
          dispatched, resp, returned, completed>>

\* Number of requests a behaviour handles, in flight together or one after another.
MaxCalls == 2
Calls == 1..MaxCalls

----------------------------------------------------------------------------
\* JSON values of a request field: key absent, null, or a number.
Missing == [tag |-> "missing", val |-> 0]
Null == [tag |-> "null", val |-> 0]
Num(v) == [tag |-> "num", val |-> v]

Abs(x) == IF x < 0 THEN -x ELSE x

\* What a Numeric(5, 2) / Numeric(8, 2) column keeps of a number: two decimals.
\* (Inputs never end in 5 thousandths, so no tie is rounded.)
Round2(v) == IF v >= 0 THEN ((v + 5) \div 10) * 10 ELSE -(((5 - v) \div 10) * 10)

\* data.get(field) written to a Numeric column: absent and null are both NULL.
Column(x) == IF x.tag = "num" THEN Num(Round2(x.val)) ELSE Null

\* Python truthiness of a column value: None and 0 are falsy.
Truthy(col) == col.tag = "num" /\ col.val # 0

\* `col or 0`
OrZero(col) == IF Truthy(col) THEN col.val ELSE 0

\* new_data.get(field, 0): the default replaces an absent key only.
GetOrZero(x) == IF x.tag = "missing" THEN Num(0) ELSE x

\* float(x) raises TypeError on None.
FloatRaises(x) == x.tag # "num"

RefFields == {"temperature", "humidity", "soil_moisture", "light_intensity"}

----------------------------------------------------------------------------
\* The users and devices tables (registration is outside this model).
Users == [u \in {1} |-> [phone |-> "+2348000000001"]]
RegisteredDevices == {"dev_a"}

\* SensorData.query.filter_by(device_id=...).order_by(timestamp.desc()).first():
\* the id of the newest row of the device, 0 when it has none.  Rows are
\* appended in timestamp order and their id is their position.
LastReadingAnyDevice(device_id) == Len(sensor_data)
LastReadingOldest(device_id) ==
    LET ids == {i \in 1..Len(sensor_data) : sensor_data[i].device_id = device_id}
    IN IF ids = {} THEN 0 ELSE CHOOSE i \in ids : \A j \in ids : j >= i
LastReading(device_id) ==
    LET ids == {i \in 1..Len(sensor_data) : sensor_data[i].device_id = device_id}
    IN IF ids = {} THEN 0 ELSE CHOOSE i \in ids : \A j \in ids : j <= i

\* The prediction thresholds of calculate_compression_ratio.
TempThreshold == 1000
HumidityThreshold == 2000
MoistureThreshold == 1500
LightThreshold == 50000

\* |float(last.f or 0) - float(new_data.get(f, 0))|
FieldDiff(last, new_data, f) == Abs(OrZero(last[f]) - GetOrZero(new_data[f]).val)

WithinThresholds(last, new_data) ==
    /\ FieldDiff(last, new_data, "temperature") < TempThreshold
    /\ FieldDiff(last, new_data, "humidity") < HumidityThreshold
    /\ FieldDiff(last, new_data, "soil_moisture") < MoistureThreshold
    /\ FieldDiff(last, new_data, "light_intensity") < LightThreshold

RatioTransmittedAsPredicted(r, p) == [compression_ratio |-> r, is_predicted |-> (r > 0)]
Ratio(r, p) == [compression_ratio |-> r, is_predicted |-> p]

calculate_compression_ratioNoColdStart(query_raised, last_id, new_data) ==
    IF query_raised THEN Ratio(0, FALSE)
    ELSE IF last_id = 0 THEN Ratio(65, FALSE)
    ELSE IF \E f \in RefFields : FloatRaises(GetOrZero(new_data[f])) THEN Ratio(0, FALSE)
    ELSE IF WithinThresholds(sensor_data[last_id], new_data) THEN Ratio(85, TRUE)
    ELSE Ratio(65, FALSE)

\* calculate_compression_ratio, given what the query returned (row id, 0 = None)
\* or that it raised.  Every exception ends in the except branch: (0.0, False).
calculate_compression_ratio(query_raised, last_id, new_data) ==
    IF query_raised THEN Ratio(0, FALSE)
    ELSE IF last_id = 0 THEN Ratio(0, FALSE)
    ELSE IF \E f \in RefFields : FloatRaises(GetOrZero(new_data[f])) THEN Ratio(0, FALSE)
    ELSE IF WithinThresholds(sensor_data[last_id], new_data) THEN Ratio(85, TRUE)
    ELSE Ratio(65, FALSE)

----------------------------------------------------------------------------
\* The default thresholds of check_sensor_alerts.
thresholds == [temperature_min |-> 5000, temperature_max |-> 35000,
               moisture_min |-> 30000, moisture_max |-> 80000,
               humidity_min |-> 40000, humidity_max |-> 90000]

AlertData(type, severity, title, current, threshold) ==
    [type |-> type, severity |-> severity, title |-> title,
     current_value |-> current, threshold_value |-> threshold]

\* `if sensor_data.temperature:` and `if sensor_data.soil_moisture:`
TemperatureCheckedAlways(record) == TRUE
TemperatureChecked(record) == Truthy(record.temperature)
MoistureChecked(record) == Truthy(record.soil_moisture)

\* float(sensor_data.temperature) / float(sensor_data.soil_moisture) inside the
\* guarded blocks raise TypeError on None.
EvaluationRaises(record) ==
    \/ TemperatureChecked(record) /\ FloatRaises(record.temperature)
    \/ MoistureChecked(record) /\ FloatRaises(record.soil_moisture)

\* "# Check temperature": the alerts the temperature of a stored record adds.
TemperatureAlertsInclusive(record) ==
    IF ~TemperatureChecked(record) THEN <<>>
    ELSE IF record.temperature.val <= thresholds.temperature_min
    THEN <<AlertData("temperature_low", "warning", "Low Temperature Alert",
                     record.temperature.val, thresholds.temperature_min)>>
    ELSE IF record.temperature.val >= thresholds.temperature_max
    THEN <<AlertData("temperature_high", "critical", "High Temperature Alert",
                     record.temperature.val, thresholds.temperature_max)>>
    ELSE <<>>
TemperatureAlerts(record) ==
    IF ~TemperatureChecked(record) THEN <<>>
    ELSE IF record.temperature.val < thresholds.temperature_min
    THEN <<AlertData("temperature_low", "warning", "Low Temperature Alert",
                     record.temperature.val, thresholds.temperature_min)>>
    ELSE IF record.temperature.val > thresholds.temperature_max
    THEN <<AlertData("temperature_high", "critical", "High Temperature Alert",
                     record.temperature.val, thresholds.temperature_max)>>
    ELSE <<>>

\* "# Check soil moisture": only the low side is checked.
MoistureAlerts(record) ==
    IF ~MoistureChecked(record) THEN <<>>
    ELSE IF record.soil_moisture.val < thresholds.moisture_min
    THEN <<AlertData("moisture_low", "critical", "Low Soil Moisture Alert",
                     record.soil_moisture.val, thresholds.moisture_min)>>
    ELSE <<>>

\* A list that leaves out the alerts whose type is already in the alerts table.
ThresholdAlertsDeduped(record) ==
    SelectSeq(TemperatureAlerts(record) \o MoistureAlerts(record),
              LAMBDA x : \A i \in 1..Len(alerts) : alerts[i].alert_type # x.type)

\* The list alerts_to_create: temperature first, then soil moisture.
ThresholdAlerts(record) == TemperatureAlerts(record) \o MoistureAlerts(record)

\* send_sms_notification: the provider call is commented out, every path
\* returns False.
send_sms_notification(phone_number) == FALSE

\* Alert rows that keep only the alerts whose send was not attempted or succeeded.
AlertRowsDropUnsent(user_id, device_id, list) ==
    LET kept == SelectSeq(list, LAMBDA x : x.severity # "critical")
    IN [i \in 1..Len(kept) |->
        [id |-> Len(alerts) + i, user_id |-> user_id, device_id |-> device_id,
         alert_type |-> kept[i].type, severity |-> kept[i].severity,
         title |-> kept[i].title, current_value |-> kept[i].current_value,
         threshold_value |-> kept[i].threshold_value,
         is_read |-> FALSE, is_resolved |-> FALSE, notification_sent |-> FALSE]]

\* Alert rows that mark every critical alert as notified.
AlertRowsMarkedSent(user_id, device_id, list) ==
    [i \in 1..Len(list) |->
        [id |-> Len(alerts) + i, user_id |-> user_id, device_id |-> device_id,
         alert_type |-> list[i].type, severity |-> list[i].severity,
         title |-> list[i].title, current_value |-> list[i].current_value,
         threshold_value |-> list[i].threshold_value,
         is_read |-> FALSE, is_resolved |-> FALSE,
         notification_sent |-> (list[i].severity = "critical")]]

\* The Alert rows the loop adds, ids continuing the table's.
AlertRows(user_id, device_id, list) ==
    [i \in 1..Len(list) |->
        [id |-> Len(alerts) + i, user_id |-> user_id, device_id |-> device_id,
         alert_type |-> list[i].type, severity |-> list[i].severity,
         title |-> list[i].title, current_value |-> list[i].current_value,
         threshold_value |-> list[i].threshold_value,
         is_read |-> FALSE, is_resolved |-> FALSE, notification_sent |-> FALSE]]

----------------------------------------------------------------------------
\* A request body.  keys: which of the required identifiers it carries.
Request(keys, device_id, user_id, t, h, m, l) ==
    [keys |-> keys, device_id |-> device_id, user_id |-> user_id,
     temperature |-> t, humidity |-> h, soil_moisture |-> m, light_intensity |-> l]

BothIds == {"device_id", "user_id"}

\* A response body without a classification (none yet, or an error body).
NoBody == [compression_ratio |-> -1, is_predicted |-> FALSE]
NoRequest == Request({}, "", 0, Missing, Missing, Missing, Missing)

\* The SensorData row receive_sensor_data builds from a request.
SensorRow(id, d, c) ==
    [id |-> id, user_id |-> d.user_id, device_id |-> d.device_id,
     temperature |-> Column(d.temperature), humidity |-> Column(d.humidity),
     soil_moisture |-> Column(d.soil_moisture),
     light_intensity |-> Column(d.light_intensity),
     compression_ratio |-> c.compression_ratio, is_predicted |-> c.is_predicted]

Init ==
    /\ sensor_data = <<>>
    /\ alerts = <<>>
    /\ devices = [d \in RegisteredDevices |-> [last_seen |-> 0]]
    /\ clock = 0
    /\ sms_log = <<>>
    /\ pc = [p \in Calls |-> "idle"]
    /\ data = [p \in Calls |-> NoRequest]
    /\ last_reading = [p \in Calls |-> 0]
    /\ failed = [p \in Calls |-> {}]
    /\ compression = [p \in Calls |-> Ratio(0, FALSE)]
    /\ sensor_record = [p \in Calls |-> 0]
    /\ alerts_to_create = [p \in Calls |-> <<>>]
    /\ alert_status = [p \in Calls |-> "none"]
    /\ dispatched = [p \in Calls |-> 0]
    /\ resp = [p \in Calls |-> 0]
    /\ returned = [p \in Calls |-> NoBody]
    /\ completed = <<>>

\* Return a response: the request is over.  Error responses carry no
\* classification.
Return(p, status) ==
    /\ resp' = [resp EXCEPT ![p] = status]
    /\ pc' = [pc EXCEPT ![p] = "done"]
    /\ completed' = Append(completed, p)

\* A handler that does not check the required fields.
ReceiveUnchecked(p, req) ==
    /\ pc[p] = "idle"
    /\ data' = [data EXCEPT ![p] = req]
    /\ pc' = [pc EXCEPT ![p] = "classify"]
    /\ UNCHANGED <<sensor_data, alerts, devices, clock, sms_log, last_reading,
                   failed, compression, sensor_record, alerts_to_create, alert_status,
                   dispatched, resp, returned, completed>>

\* receive_sensor_data, up to the required-field check: a body without
\* device_id or user_id is answered 400.
Receive(p, req) ==
    /\ pc[p] = "idle"
    /\ data' = [data EXCEPT ![p] = req]
    /\ IF BothIds \subseteq req.keys
       THEN /\ pc' = [pc EXCEPT ![p] = "classify"]
            /\ UNCHANGED <<resp, completed>>
       ELSE Return(p, 400)
    /\ UNCHANGED <<sensor_data, alerts, devices, clock, sms_log, last_reading,
                   failed, compression, sensor_record, alerts_to_create, alert_status,
                   dispatched, returned>>

\* compression_ratio, is_predicted = calculate_compression_ratio(device_id, data):
\* the query for the device's newest row either answers or raises, and a raise
\* is swallowed by the function's except branch.
Classify(p) ==
    /\ pc[p] = "classify"
    /\ \E query_raised \in BOOLEAN :
        LET last_id == IF query_raised THEN 0 ELSE LastReading(data[p].device_id)
        IN /\ last_reading' = [last_reading EXCEPT ![p] = last_id]
           /\ failed' = [failed EXCEPT ![p] =
                            IF query_raised THEN @ \cup {"fetch"} ELSE @]
           /\ compression' = [compression EXCEPT ![p] =
                  calculate_compression_ratio(query_raised, last_id, data[p])]
    /\ pc' = [pc EXCEPT ![p] = "persist"]
    /\ UNCHANGED <<sensor_data, alerts, devices, clock, sms_log, data,
                   sensor_record, alerts_to_create, alert_status, dispatched,
                   resp, returned, completed>>

\* A handler that commits last_seen on its own, before the record.
PersistLastSeenFirst(p) ==
    /\ pc[p] = "persist"
    /\ \E outcome \in {"ok", "device_query", "commit"} :
        /\ IF outcome = "device_query"
           THEN UNCHANGED <<clock, devices>>
           ELSE /\ clock' = clock + 1
                /\ devices' = [d \in DOMAIN devices |->
                       IF d = data[p].device_id THEN [last_seen |-> clock + 1]
                       ELSE devices[d]]
        /\ IF outcome = "ok"
           THEN /\ sensor_data' = Append(sensor_data,
                       SensorRow(Len(sensor_data) + 1, data[p], compression[p]))
                /\ sensor_record' = [sensor_record EXCEPT ![p] = Len(sensor_data) + 1]
                /\ pc' = [pc EXCEPT ![p] = "alerts"]
                /\ UNCHANGED <<failed, resp, completed>>
           ELSE /\ failed' = [failed EXCEPT ![p] = @ \cup {outcome}]
                /\ Return(p, 500)
                /\ UNCHANGED <<sensor_data, sensor_record>>
    /\ UNCHANGED <<alerts, sms_log, data, last_reading, compression,
                   alerts_to_create, alert_status, dispatched, returned>>

\* A handler that keeps one row per device, replacing the device's earlier row.
PersistUpsert(p) ==
    /\ pc[p] = "persist"
    /\ \E outcome \in {"ok", "device_query", "commit"} :
        IF outcome = "ok"
        THEN LET last_id == LastReading(data[p].device_id)
                 id == IF last_id = 0 THEN Len(sensor_data) + 1 ELSE last_id
             IN /\ sensor_data' =
                        IF last_id = 0
                        THEN Append(sensor_data, SensorRow(id, data[p], compression[p]))
                        ELSE [sensor_data EXCEPT
                                ![id] = SensorRow(id, data[p], compression[p])]
                /\ sensor_record' = [sensor_record EXCEPT ![p] = id]
                /\ clock' = clock + 1
                /\ devices' = [d \in DOMAIN devices |->
                       IF d = data[p].device_id THEN [last_seen |-> clock + 1]
                       ELSE devices[d]]
                /\ pc' = [pc EXCEPT ![p] = "alerts"]
                /\ UNCHANGED <<failed, resp, completed>>
        ELSE /\ failed' = [failed EXCEPT ![p] = @ \cup {outcome}]
             /\ Return(p, 500)
             /\ UNCHANGED <<sensor_data, sensor_record, clock, devices>>
    /\ UNCHANGED <<alerts, sms_log, data, last_reading, compression,
                   alerts_to_create, alert_status, dispatched, returned>>

\* The record is added, the device's last_seen set, and both committed by one
\* db.session.commit().  The Device query or the commit may raise: the handler's
\* except branch answers 500 and nothing is committed.
Persist(p) ==
    /\ pc[p] = "persist"
    /\ \E outcome \in {"ok", "device_query", "commit"} :
        IF outcome = "ok"
        THEN /\ sensor_data' = Append(sensor_data,
                    SensorRow(Len(sensor_data) + 1, data[p], compression[p]))
             /\ sensor_record' = [sensor_record EXCEPT ![p] = Len(sensor_data) + 1]
             /\ clock' = clock + 1
             /\ devices' = [d \in DOMAIN devices |->
                    IF d = data[p].device_id THEN [last_seen |-> clock + 1]
                    ELSE devices[d]]
             /\ pc' = [pc EXCEPT ![p] = "alerts"]
             /\ UNCHANGED <<failed, resp, completed>>
        ELSE /\ failed' = [failed EXCEPT ![p] = @ \cup {outcome}]
             /\ Return(p, 500)
             /\ UNCHANGED <<sensor_data, sensor_record, clock, devices>>
    /\ UNCHANGED <<alerts, sms_log, data, last_reading, compression,
                   alerts_to_create, alert_status, dispatched, returned>>

\* check_sensor_alerts(user_id, device_id, sensor_record), up to the list
\* alerts_to_create.  Every exception is logged and swallowed: a query may raise
\* (the user lookup, or the reload of the committed record's attributes), and an
\* unknown user ends the function at once.  With an empty list nothing is left
\* to do; otherwise the loop over the list follows.
CheckAlerts(p) ==
    /\ pc[p] = "alerts"
    /\ \E outcome \in {"ok", "query"} :
        LET record == sensor_data[sensor_record[p]]
            list == ThresholdAlerts(record)
            found == data[p].user_id \in DOMAIN Users
            End(status) ==
                /\ alert_status' = [alert_status EXCEPT ![p] = status]
                /\ pc' = [pc EXCEPT ![p] = "respond"]
        IN IF outcome = "query"
           THEN End("query_error") /\ UNCHANGED alerts_to_create
           ELSE IF ~found
           THEN End("no_user") /\ UNCHANGED alerts_to_create
           ELSE IF EvaluationRaises(record)
           THEN End("type_error") /\ UNCHANGED alerts_to_create
           ELSE /\ alerts_to_create' = [alerts_to_create EXCEPT ![p] = list]
                /\ IF list = <<>>
                   THEN End("ok")
                   ELSE /\ pc' = [pc EXCEPT ![p] = "dispatch"]
                        /\ UNCHANGED alert_status
    /\ UNCHANGED <<sensor_data, alerts, devices, clock, sms_log, data, last_reading,
                   failed, compression, sensor_record, dispatched, resp, returned,
                   completed>>

\* `if alert_data['severity'] == 'critical':`
NeedsSmsAlways(alert_data) == TRUE
NeedsSms(alert_data) == alert_data.severity = "critical"

\* One turn of the loop, first half: the next alert of the list is added to the
\* session, and for a critical one the handler calls send_sms_notification.
AddAlert(p) ==
    /\ pc[p] = "dispatch"
    /\ dispatched[p] < Len(alerts_to_create[p])
    /\ dispatched' = [dispatched EXCEPT ![p] = @ + 1]
    /\ pc' = [pc EXCEPT ![p] =
                IF NeedsSms(alerts_to_create[p][dispatched[p] + 1])
                THEN "sms" ELSE "dispatch"]
    /\ UNCHANGED <<sensor_data, alerts, devices, clock, sms_log, data, last_reading,
                   failed, compression, sensor_record, alerts_to_create,
                   alert_status, resp, returned, completed>>

\* One turn of the loop, second half: send_sms_notification returns to the
\* handler, which ignores the result and goes on with the loop.
SendSms(p) ==
    /\ pc[p] = "sms"
    /\ sms_log' = Append(sms_log,
            [call |-> p, alert_type |-> alerts_to_create[p][dispatched[p]].type,
             sent |-> send_sms_notification(Users[data[p].user_id].phone)])
    /\ pc' = [pc EXCEPT ![p] = "dispatch"]
    /\ UNCHANGED <<sensor_data, alerts, devices, clock, data, last_reading, failed,
                   compression, sensor_record, alerts_to_create, alert_status,
                   dispatched, resp, returned, completed>>

\* A commit of the alerts whose failure reaches the caller of check_sensor_alerts.
CommitAlertsAborting(p) ==
    /\ pc[p] = "dispatch"
    /\ dispatched[p] = Len(alerts_to_create[p])
    /\ \E outcome \in {"ok", "commit"} :
        IF outcome = "ok"
        THEN /\ alerts' = alerts \o
                    AlertRows(data[p].user_id, data[p].device_id, alerts_to_create[p])
             /\ alert_status' = [alert_status EXCEPT ![p] = "ok"]
             /\ pc' = [pc EXCEPT ![p] = "respond"]
             /\ UNCHANGED <<resp, completed>>
        ELSE /\ alert_status' = [alert_status EXCEPT ![p] = "commit_error"]
             /\ Return(p, 500)
             /\ UNCHANGED alerts
    /\ UNCHANGED <<sensor_data, devices, clock, sms_log, data, last_reading, failed,
                   compression, sensor_record, alerts_to_create, dispatched,
                   returned>>

\* After the loop: db.session.commit() stores the added alerts, or raises and the
\* except branch logs it.
CommitAlerts(p) ==
    /\ pc[p] = "dispatch"
    /\ dispatched[p] = Len(alerts_to_create[p])
    /\ \E outcome \in {"ok", "commit"} :
        IF outcome = "ok"
        THEN /\ alerts' = alerts \o
                    AlertRows(data[p].user_id, data[p].device_id, alerts_to_create[p])
             /\ alert_status' = [alert_status EXCEPT ![p] = "ok"]
        ELSE /\ alert_status' = [alert_status EXCEPT ![p] = "commit_error"]
             /\ UNCHANGED alerts
    /\ pc' = [pc EXCEPT ![p] = "respond"]
    /\ UNCHANGED <<sensor_data, devices, clock, sms_log, data, last_reading, failed,
                   compression, sensor_record, alerts_to_create, dispatched, resp,
                   returned, completed>>

\* return jsonify({... compression_ratio, is_predicted ...}), 200
RespondDefault(p) ==
    /\ pc[p] = "respond"
    /\ Return(p, 200)
    /\ returned' = [returned EXCEPT ![p] = Ratio(0, FALSE)]
    /\ UNCHANGED <<sensor_data, alerts, devices, clock, sms_log, data, last_reading,
                   failed, compression, sensor_record, alerts_to_create, alert_status,
                   dispatched>>
Respond(p) ==
    /\ pc[p] = "respond"
    /\ Return(p, 200)
    /\ returned' = [returned EXCEPT ![p] = compression[p]]
    /\ UNCHANGED <<sensor_data, alerts, devices, clock, sms_log, data, last_reading,
                   failed, compression, sensor_record, alerts_to_create, alert_status,
                   dispatched>>

----------------------------------------------------------------------------
\* The requests of the sequential and of the concurrent specification.
Reading(device_id, user_id, t, h, m, l) ==
    Request(BothIds, device_id, user_id, t, h, m, l)

\* the prior state and the stable reading of the specification's examples
PriorReading == Reading("dev_a", 1, Num(25000), Num(60000), Num(50000), Num(500000))
StableReading == Reading("dev_a", 1, Num(25500), Num(61000), Num(50500), Num(520000))
\* too hot and too dry
HotDryReading == Reading("dev_a", 1, Num(36000), Num(60000), Num(20000), Num(500000))
\* an unregistered device and an unknown user
OtherDeviceReading == Reading("dev_b", 2, Num(0), Num(60000), Num(0), Num(500000))

ConcurrentRequests == {PriorReading, StableReading, HotDryReading, OtherDeviceReading}

Requests ==
    ConcurrentRequests \cup
    { \* a reading with more than two decimals
      Reading("dev_a", 1, Num(25004), Num(60000), Num(50000), Num(500000)),
      \* the simulator's sensor_error body
      Reading("dev_a", 1, Null, Null, Null, Missing),
      \* no device_id
      Request({"user_id"}, "", 1, Num(25000), Num(60000), Num(50000), Num(500000)),
      \* no user_id
      Request({"device_id"}, "dev_a", 0, Num(36000), Num(60000), Num(20000),
              Num(500000)) }

Next ==
    \E p \in Calls :
        \/ \E req \in ConcurrentRequests : Receive(p, req)
        \/ Classify(p)
        \/ Persist(p)
        \/ CheckAlerts(p)
        \/ AddAlert(p)
        \/ SendSms(p)
        \/ CommitAlerts(p)
        \/ Respond(p)

\* Requests handled concurrently (the server is threaded, the handler takes no lock).
Spec == Init /\ [][Next]_vars

\* Requests handled one after another: a request arrives only when none is in flight.
NoneInFlight == \A q \in Calls : pc[q] \in {"idle", "done"}

ReceiveSeq(p, req) == NoneInFlight /\ Receive(p, req)

NextSeq ==
    \E p \in Calls :
        \/ \E req \in Requests : ReceiveSeq(p, req)
        \/ Classify(p)
        \/ Persist(p)
        \/ CheckAlerts(p)
        \/ AddAlert(p)
        \/ SendSms(p)
        \/ CommitAlerts(p)
        \/ Respond(p)

SpecSeq == Init /\ [][NextSeq]_vars

----------------------------------------------------------------------------
\* Classification over a grid of (stored reading, incoming reading): one request
\* is classified against a table holding no row or one earlier row of the device.
StoredRow(t, h, m, l) ==
    [id |-> 1, user_id |-> 1, device_id |-> "dev_a",
     temperature |-> t, humidity |-> h, soil_moisture |-> m, light_intensity |-> l,
     compression_ratio |-> 0, is_predicted |-> FALSE]

StoredGrid ==
    { StoredRow(Num(25000), Num(60000), Num(50000), Num(500000)),
      StoredRow(Null, Null, Null, Null),
      StoredRow(Num(0), Num(60000), Num(50000), Null) }

ClassifyRequests ==
    { Reading("dev_a", 1, t, h, m, l) :
        t \in {Missing, Null, Num(0), Num(999), Num(1000), Num(24000), Num(24001),
               Num(25000), Num(25500), Num(25999), Num(26000), Num(30000)},
        h \in {Missing, Num(58000), Num(58001), Num(60000), Num(61000), Num(62000)},
        m \in {Null, Num(48500), Num(50000), Num(50500), Num(51499), Num(51500)},
        l \in {Missing, Num(450000), Num(500000), Num(520000), Num(549999), Num(550000)} }

InitClassify ==
    /\ sensor_data \in {<<>>} \cup {<<r>> : r \in StoredGrid}
    /\ alerts = <<>>
    /\ devices = [d \in RegisteredDevices |-> [last_seen |-> 0]]
    /\ clock = 0
    /\ sms_log = <<>>
    /\ pc = [p \in Calls |-> "idle"]
    /\ data = [p \in Calls |-> NoRequest]
    /\ last_reading = [p \in Calls |-> 0]
    /\ failed = [p \in Calls |-> {}]
    /\ compression = [p \in Calls |-> Ratio(0, FALSE)]
    /\ sensor_record = [p \in Calls |-> 0]
    /\ alerts_to_create = [p \in Calls |-> <<>>]
    /\ alert_status = [p \in Calls |-> "none"]
    /\ dispatched = [p \in Calls |-> 0]
    /\ resp = [p \in Calls |-> 0]
    /\ returned = [p \in Calls |-> NoBody]
    /\ completed = <<>>

NextClassify ==
    \/ \E req \in ClassifyRequests : Receive(1, req)
    \/ Classify(1)

SpecClassify == InitClassify /\ [][NextClassify]_vars

----------------------------------------------------------------------------
\* Threshold evaluation over a grid of readings: one request goes through the
\* whole handler.
AlertRequests ==
    { Reading("dev_a", u, t, Num(60000), m, Num(500000)) :
        u \in {1, 2},
        t \in {Missing, Null, Num(-1000), Num(0), Num(4000), Num(4990), Num(5000),
               Num(5010), Num(20000), Num(35000), Num(35010), Num(36000)},
        m \in {Missing, Null, Num(0), Num(20000), Num(29000), Num(30000),
               Num(80000), Num(81000)} }

NextAlerts ==
    \/ \E req \in AlertRequests : Receive(1, req)
    \/ Classify(1)
    \/ Persist(1)
    \/ CheckAlerts(1)
    \/ AddAlert(1)
    \/ SendSms(1)
    \/ CommitAlerts(1)
    \/ Respond(1)

SpecAlerts == Init /\ [][NextAlerts]_vars

----------------------------------------------------------------------------
\* A device that drifts: its first reading is already stored, and the next
\* readings arrive one after another, each a step away from an earlier one.
FirstReading == Reading("dev_a", 1, Num(25004), Num(60000), Num(50000), Num(500000))

DriftRequests ==
    { Reading("dev_a", 1, t, Num(60000), Num(50000), l) :
        t \in {Num(25800), Num(26003), Num(26600), Num(27400)},
        l \in {Num(500000), Num(540000)} }

InitDrift ==
    /\ sensor_data = <<SensorRow(1, FirstReading, Ratio(0, FALSE))>>
    /\ alerts = <<>>
    /\ devices = [d \in RegisteredDevices |-> [last_seen |-> 1]]
    /\ clock = 1
    /\ sms_log = <<>>
    /\ pc = [p \in Calls |-> "idle"]
    /\ data = [p \in Calls |-> NoRequest]
    /\ last_reading = [p \in Calls |-> 0]
    /\ failed = [p \in Calls |-> {}]
    /\ compression = [p \in Calls |-> Ratio(0, FALSE)]
    /\ sensor_record = [p \in Calls |-> 0]
    /\ alerts_to_create = [p \in Calls |-> <<>>]
    /\ alert_status = [p \in Calls |-> "none"]
    /\ dispatched = [p \in Calls |-> 0]
    /\ resp = [p \in Calls |-> 0]
    /\ returned = [p \in Calls |-> NoBody]
    /\ completed = <<>>

ReceiveDrift(p, req) == NoneInFlight /\ Receive(p, req)

\* None of these readings breaches a threshold, so the alert loop has no turn.
NextDrift ==
    \E p \in Calls :
        \/ \E req \in DriftRequests : ReceiveDrift(p, req)
        \/ Classify(p)
        \/ Persist(p)
        \/ CheckAlerts(p)
        \/ Respond(p)

SpecDrift == InitDrift /\ [][NextDrift]_vars

----------------------------------------------------------------------------
\* Properties.

\* The classification of request p has been computed.
Classified(p) ==
    \/ pc[p] \in {"persist", "alerts", "dispatch", "sms", "respond"}
    \/ pc[p] = "done" /\ resp[p] # 400

\* The record of request p has been committed.
Ingested(p) == sensor_record[p] # 0

\* check_sensor_alerts built its list for request p.
Evaluated(p) == alert_status[p] \in {"ok", "commit_error"}

\* A field as the specification reads it: an absent or null value counts as 0.
ValueOrZero(x) == IF x.tag = "num" THEN x.val ELSE 0

\* The decision rule on a stored row and an incoming reading.
RuleSaysPredicted(row, d) ==
    /\ Abs(ValueOrZero(row.temperature) - ValueOrZero(d.temperature)) < 1000
    /\ Abs(ValueOrZero(row.humidity) - ValueOrZero(d.humidity)) < 2000
    /\ Abs(ValueOrZero(row.soil_moisture) - ValueOrZero(d.soil_moisture)) < 1500
    /\ Abs(ValueOrZero(row.light_intensity) - ValueOrZero(d.light_intensity)) < 50000

\* The stored row holds exactly the reading's values (no value for null or absent).
SameValues(row, d) ==
    \A f \in RefFields :
        IF d[f].tag = "num" THEN row[f] = Num(d[f].val) ELSE row[f] = Null

\* The stored row holds the reading's values to two decimals.
SameValuesToTwoDecimals(row, d) ==
    \A f \in RefFields :
        IF d[f].tag = "num"
        THEN /\ row[f].tag = "num"
             /\ row[f].val % 10 = 0
             /\ Abs(row[f].val - d[f].val) < 5
        ELSE row[f] = Null

\* The requests whose record for the device is committed, and the one committed last.
IngestedFor(device_id) == {p \in Calls : Ingested(p) /\ data[p].device_id = device_id}
LatestIngest(device_id) ==
    CHOOSE p \in IngestedFor(device_id) :
        \A q \in IngestedFor(device_id) : sensor_record[q] <= sensor_record[p]
DeviceIds == {"dev_a", "dev_b"}

\* C1: for a device with a stored reading, a classification that read it is
\* (85, true) exactly when all four differences are strictly under their
\* thresholds, and (65, false) in every other case.
C1_DecisionRule ==
    \A p \in Calls :
        (Classified(p) /\ "fetch" \notin failed[p] /\ last_reading[p] # 0) =>
            compression[p] =
                IF RuleSaysPredicted(sensor_data[last_reading[p]], data[p])
                THEN Ratio(85, TRUE) ELSE Ratio(65, FALSE)

\* C2: the first reading of a device (no stored row of that device) is classified
\* (0, false) whatever its values, and its row is what the next request for the
\* device is compared against.
DeviceRows(device_id) ==
    {i \in 1..Len(sensor_data) : sensor_data[i].device_id = device_id}

C2_ColdStart ==
    \A p \in Calls :
        pc[p] = "persist" =>
            LET rows == DeviceRows(data[p].device_id)
            IN /\ rows = {} =>
                    (compression[p] = Ratio(0, FALSE) /\ last_reading[p] = 0)
               /\ (Cardinality(rows) = 1 /\ "fetch" \notin failed[p]) =>
                    /\ last_reading[p] \in rows
                    /\ \A i \in rows :
                        /\ sensor_data[i].compression_ratio = 0
                        /\ ~sensor_data[i].is_predicted

C2_Witness ==
    \E p \in Calls :
        /\ pc[p] = "persist"
        /\ Cardinality(DeviceRows(data[p].device_id)) = 1
        /\ last_reading[p] \in DeviceRows(data[p].device_id)
        /\ compression[p] = Ratio(85, TRUE)
        /\ sensor_data[last_reading[p]].compression_ratio = 0

\* C3 as stated: after every successful ingest the device's last-known state
\* (its newest row) equals the values of the reading ingested last.
C3_BaselineEqualsReading ==
    \A d \in DeviceIds :
        IngestedFor(d) # {} =>
            SameValues(sensor_data[LastReading(d)], data[LatestIngest(d)])

\* C3 amended: after every successful ingest the device's newest row is the row of
\* the reading ingested last, holding its values rounded to two decimals (a null
\* or absent field as null), whatever the classification.
C3_BaselineAdvances ==
    \A d \in DeviceIds :
        IngestedFor(d) # {} =>
            /\ LastReading(d) = sensor_record[LatestIngest(d)]
            /\ SameValuesToTwoDecimals(sensor_data[LastReading(d)], data[LatestIngest(d)])

C3_Witness ==
    \E p, q \in Calls :
        /\ Ingested(p) /\ Ingested(q)
        /\ data[p].device_id = data[q].device_id
        /\ sensor_record[p] < sensor_record[q]
        /\ compression[q].is_predicted
        /\ LastReading(data[q].device_id) = sensor_record[q]
        /\ ~SameValues(sensor_data[sensor_record[p]], data[q])

\* C4: of two ingests for one device the later one is classified against the
\* earlier one's reading (or a newer one), never against the baseline the earlier
\* one read.
C4_Serialized ==
    \A p, q \in Calls :
        (/\ Ingested(p) /\ Ingested(q)
         /\ data[p].device_id = data[q].device_id
         /\ sensor_record[p] < sensor_record[q]
         /\ "fetch" \notin failed[q]) =>
            last_reading[q] >= sensor_record[p]

\* C5: once all requests have completed, each successful one has its row stored
\* and the device's state holds the values of the request that completed last.
AllDone == \A p \in Calls : pc[p] = "done"
Succeeded(device_id) == {p \in Calls : resp[p] = 200 /\ data[p].device_id = device_id}
CompletedLast(device_id) ==
    CHOOSE p \in Succeeded(device_id) :
        \A i, j \in 1..Len(completed) :
            (completed[i] = p /\ completed[j] \in Succeeded(device_id)) => j <= i

C5_NoLostUpdate ==
    AllDone =>
        \A d \in DeviceIds :
            Succeeded(d) # {} =>
                /\ \A p \in Succeeded(d) :
                    /\ Ingested(p)
                    /\ SameValues(sensor_data[sensor_record[p]], data[p])
                /\ SameValues(sensor_data[LastReading(d)], data[CompletedLast(d)])

\* The temperature and the soil-moisture alerts of the list built for request p.
IsTemperatureAlert(a) == a.type \in {"temperature_low", "temperature_high"}
IsMoistureAlert(a) == a.type = "moisture_low"
TemperatureAlertsOf(p) == SelectSeq(alerts_to_create[p], IsTemperatureAlert)
MoistureAlertsOf(p) == SelectSeq(alerts_to_create[p], IsMoistureAlert)

IsAlert(a, type, severity, current, threshold) ==
    /\ a.type = type
    /\ a.severity = severity
    /\ a.current_value = current
    /\ a.threshold_value = threshold

\* C6: a reading with a numeric temperature gets exactly one low-temperature
\* warning when it is below the minimum, exactly one high-temperature critical
\* alert when it is above the maximum, and never more than one temperature alert.
C6_TemperatureAlert ==
    \A p \in Calls :
        (Evaluated(p) /\ data[p].temperature.tag = "num") =>
            LET v == data[p].temperature.val
                ta == TemperatureAlertsOf(p)
            IN /\ Len(ta) <= 1
               /\ v < thresholds.temperature_min =>
                    /\ Len(ta) = 1
                    /\ IsAlert(ta[1], "temperature_low", "warning", v,
                               thresholds.temperature_min)
               /\ v > thresholds.temperature_max =>
                    /\ Len(ta) = 1
                    /\ IsAlert(ta[1], "temperature_high", "critical", v,
                               thresholds.temperature_max)

\* C7: a reading with a numeric soil_moisture below the minimum gets exactly one
\* critical soil-moisture alert; at or above the minimum it gets none.
C7_MoistureAlert ==
    \A p \in Calls :
        (Evaluated(p) /\ data[p].soil_moisture.tag = "num") =>
            LET v == data[p].soil_moisture.val
                ma == MoistureAlertsOf(p)
            IN IF v < thresholds.moisture_min
               THEN /\ Len(ma) = 1
                    /\ IsAlert(ma[1], "moisture_low", "critical", v,
                               thresholds.moisture_min)
               ELSE ma = <<>>

\* C8: the comparison is strict: a temperature equal to the minimum or to the
\* maximum gets no temperature alert, one degree below the minimum gets the low
\* alert, one degree above the maximum gets the high alert.
C8_StrictBounds ==
    \A p \in Calls :
        (Evaluated(p) /\ data[p].temperature.tag = "num") =>
            LET v == data[p].temperature.val
                ta == TemperatureAlertsOf(p)
            IN /\ v \in {thresholds.temperature_min, thresholds.temperature_max} =>
                    ta = <<>>
               /\ v = thresholds.temperature_min - 1000 =>
                    (Len(ta) = 1 /\ ta[1].type = "temperature_low")
               /\ v = thresholds.temperature_max + 1000 =>
                    (Len(ta) = 1 /\ ta[1].type = "temperature_high")

C8_Witness ==
    \E p \in Calls :
        /\ Evaluated(p)
        /\ data[p].temperature = Num(thresholds.temperature_min)
        /\ data[p].soil_moisture = Num(20000)
        /\ Len(alerts_to_create[p]) = 1

\* C9: a null or absent field is skipped: it gets no alert and raises nothing,
\* and the other field of the reading is still checked and alerts.
Absent(x) == x.tag # "num"
AlertsChecked(p) == alert_status[p] \notin {"none", "no_user", "query_error"}

C9_NullFieldSkipped ==
    \A p \in Calls :
        AlertsChecked(p) =>
            /\ (Absent(data[p].temperature) \/ Absent(data[p].soil_moisture)) =>
                    Evaluated(p)
            /\ Absent(data[p].temperature) =>
                    /\ TemperatureAlertsOf(p) = <<>>
                    /\ data[p].soil_moisture = Num(20000) =>
                            Len(MoistureAlertsOf(p)) = 1
            /\ Absent(data[p].soil_moisture) =>
                    /\ MoistureAlertsOf(p) = <<>>
                    /\ data[p].temperature = Num(36000) =>
                            Len(TemperatureAlertsOf(p)) = 1

C9_Witness ==
    \E p \in Calls :
        /\ alert_status[p] = "ok"
        /\ data[p].temperature = Null
        /\ data[p].soil_moisture = Num(20000)
        /\ Len(alerts_to_create[p]) = 1
        /\ Len(alerts) = 1

\* C10: a request one of whose storage steps failed (the fetch of the last
\* reading, the device lookup, the commit) is answered as failed and commits no
\* record.
C10_StorageFailureIsFatal ==
    \A p \in Calls :
        (pc[p] = "done" /\ failed[p] # {}) => (resp[p] = 500 /\ ~Ingested(p))

\* C11: a failure inside the alert step (the owner lookup raising, the commit of
\* the alerts raising, a value that cannot be evaluated, a send reporting
\* failure) leaves the committed record in place, and the request is answered
\* 200 with the classification stored in that record.
AlertFailure(p) ==
    \/ alert_status[p] \in {"query_error", "type_error", "commit_error"}
    \/ \E i \in 1..Len(sms_log) : sms_log[i].call = p /\ ~sms_log[i].sent

C11_AlertFailureContained ==
    \A p \in Calls :
        AlertFailure(p) =>
            /\ sensor_record[p] \in 1..Len(sensor_data)
            /\ sensor_data[sensor_record[p]].device_id = data[p].device_id
            /\ resp[p] \in {0, 200}
            /\ pc[p] = "done" =>
                /\ resp[p] = 200
                /\ returned[p] = compression[p]
                /\ returned[p] =
                      Ratio(sensor_data[sensor_record[p]].compression_ratio,
                            sensor_data[sensor_record[p]].is_predicted)

C11_Witness ==
    \E p \in Calls :
        /\ pc[p] = "done"
        /\ alert_status[p] = "commit_error"
        /\ \E i \in 1..Len(sms_log) : sms_log[i].call = p /\ ~sms_log[i].sent
        /\ returned[p] = Ratio(65, FALSE)
        /\ alerts = <<>>

\* The send attempts of request p, and the alerts of its list that are critical.
SendsOf(p) == SelectSeq(sms_log, LAMBDA e : e.call = p)
CriticalOf(p) == SelectSeq(alerts_to_create[p], LAMBDA x : x.severity = "critical")
SendFailed(p) == \E i \in 1..Len(sms_log) : sms_log[i].call = p /\ ~sms_log[i].sent

\* The persisted row i is the alert x of a list.
RowOf(row, x) ==
    /\ row.alert_type = x.type
    /\ row.severity = x.severity
    /\ row.current_value = x.current_value
    /\ row.threshold_value = x.threshold_value

\* C12: when the send for a critical alert failed and the commit of the alerts
\* went through, every alert of the reading, the critical one and the others,
\* is persisted, in order, with notification_sent false.
C12_DispatcherResilience ==
    \A p \in Calls :
        (SendFailed(p) /\ alert_status[p] = "ok") =>
            /\ Len(alerts) = Len(alerts_to_create[p])
            /\ \A i \in 1..Len(alerts) :
                /\ RowOf(alerts[i], alerts_to_create[p][i])
                /\ alerts[i].notification_sent = FALSE

C12_Witness ==
    \E p \in Calls :
        /\ alert_status[p] = "ok"
        /\ SendFailed(p)
        /\ Len(alerts) = 2
        /\ alerts[1].severity = "warning"
        /\ alerts[2].severity = "critical"
        /\ alerts[2].notification_sent = FALSE

\* C13: the notification_sent flag of a persisted alert is true exactly when a
\* send for that alert reported success; a persisted critical alert has had its
\* send, and its flag is that send's result; every persisted alert is unresolved.
SendOutcomes(type) ==
    {sms_log[k].sent : k \in {j \in 1..Len(sms_log) : sms_log[j].alert_type = type}}

C14_SendIffCritical ==
    \A p \in Calls :
        /\ Len(SendsOf(p)) <= Len(CriticalOf(p))
        /\ \A k \in 1..Len(SendsOf(p)) : SendsOf(p)[k].alert_type = CriticalOf(p)[k].type
        /\ pc[p] \in {"respond", "done"} => Len(SendsOf(p)) = Len(CriticalOf(p))
        /\ \A i \in 1..Len(alerts_to_create[p]) :
                alerts_to_create[p][i].severity # "critical" =>
                    \A k \in 1..Len(SendsOf(p)) :
                        SendsOf(p)[k].alert_type # alerts_to_create[p][i].type

C14_Witness ==
    \E p \in Calls :
        /\ pc[p] = "done"
        /\ Len(alerts_to_create[p]) = 2
        /\ alerts_to_create[p][1].severity = "warning"
        /\ Len(SendsOf(p)) = 1
        /\ SendsOf(p)[1].alert_type = "moisture_low"
        /\ Len(alerts) = 2

\* C15: a request without device_id or without user_id is answered 400 (not the
\* 500 of a storage or processing error) in the step that receives it, and that
\* step stores no record, touches no device's last_seen, creates no alert, sends
\* nothing and leaves every device's last reading as it was; the request never
\* gets a classification, a record or an alert list.
Rejected(p) == pc[p] = "idle" /\ pc'[p] # "idle" /\ ~(BothIds \subseteq data'[p].keys)

C15_ValidationRejects ==
    [][\A p \in Calls :
        Rejected(p) =>
            /\ pc'[p] = "done"
            /\ resp'[p] = 400
            /\ UNCHANGED <<sensor_data, alerts, devices, clock, sms_log>>
            /\ \A d \in DeviceIds : LastReading(d)' = LastReading(d)
            /\ sensor_record'[p] = 0
            /\ alerts_to_create'[p] = <<>>
            /\ returned'[p] = NoBody]_vars

C15_Witness ==
    \E p, q \in Calls :
        /\ completed = <<q, p>>
        /\ resp[q] = 200
        /\ resp[p] = 400
        /\ "user_id" \notin data[p].keys
        /\ data[p].device_id = data[q].device_id
        /\ Len(sensor_data) = 1
        /\ LastReading(data[p].device_id) = sensor_record[q]
        /\ alerts = <<>>
        /\ sms_log = <<>>

\* check_sensor_alerts of request p got as far as its list alerts_to_create.
ListBuilt(p) ==
    \/ pc[p] \in {"dispatch", "sms"}
    \/ alert_status[p] \in {"ok", "commit_error"}

SameReading(p, q) == \A f \in RefFields : data[p][f] = data[q][f]

CommitsFor(d) ==
    \E p \in Calls :
        /\ data[p].device_id = d
        /\ pc[p] = "persist"
        /\ sensor_record'[p] = Len(sensor_data) + 1

\* The last reading a classification used belongs to the request's own device;
\* with none of its own the device is classified as new, whatever the other
\* devices have stored.
OwnBaseline(p) ==
    (Classified(p) /\ "fetch" \notin failed[p]) =>
        IF last_reading[p] = 0
        THEN compression[p] = Ratio(0, FALSE)
        ELSE /\ last_reading[p] \in 1..Len(sensor_data)
             /\ sensor_data[last_reading[p]].device_id = data[p].device_id

\* C17: in every interleaving, a step changes a device's last reading or its
\* last_seen only by committing a record of that device, the stored rows of all
\* devices stay as they are, and a classification reads only rows of the
\* request's own device.
C17_DevicesIndependent ==
    /\ [](\A p \in Calls : OwnBaseline(p))
    /\ [][/\ \A d \in DeviceIds :
                LastReading(d)' # LastReading(d) => CommitsFor(d)
          /\ \A d \in DOMAIN devices :
                devices'[d] # devices[d] => CommitsFor(d)
          /\ \A i \in 1..Len(sensor_data) :
                /\ i \in 1..Len(sensor_data')
                /\ sensor_data'[i] = sensor_data[i]]_vars

C17_Witness ==
    \E p, q \in Calls :
        /\ data[p].device_id = "dev_a"
        /\ data[q].device_id = "dev_b"
        /\ sensor_record[p] = 1
        /\ sensor_record[q] = 2
        /\ "fetch" \notin failed[q]
        /\ last_reading[q] = 0
        /\ LastReading("dev_a") = 1
        /\ devices["dev_a"].last_seen = 1
        /\ pc[p] = "alerts"

\* C18: the send does not hold up the response: while the send for a critical
\* alert of request p is outstanding, the handler can already return p's result.
C18_SendDoesNotBlock ==
    \A p \in Calls : pc[p] = "sms" => ENABLED Respond(p)

\* C19: for a device with a stored reading, when the incoming reading omits a
\* reference field or carries it as null, or the stored row has no value for it,
\* the classification is raised by nothing: the field counts as 0 and the
\* result is (85, true) or (65, false) as the rule says.
SomeFieldAbsent(row, d) ==
    \E f \in RefFields : d[f].tag # "num" \/ row[f].tag # "num"

C19_AbsentFieldCountsAsZero ==
    \A p \in Calls :
        (/\ Classified(p)
         /\ "fetch" \notin failed[p]
         /\ last_reading[p] # 0
         /\ SomeFieldAbsent(sensor_data[last_reading[p]], data[p])) =>
            /\ compression[p] \in {Ratio(85, TRUE), Ratio(65, FALSE)}
            /\ compression[p].is_predicted =
                    RuleSaysPredicted(sensor_data[last_reading[p]], data[p])

\* The alert step of request p has left a trace.
AlertStepBegun(p) ==
    \/ alert_status[p] # "none"
    \/ alerts_to_create[p] # <<>>
    \/ dispatched[p] > 0
    \/ SendsOf(p) # <<>>

\* The persisted alert comes from the list of a request whose record is committed.
AlertHasRecord(row) ==
    \E p \in Calls :
        /\ Ingested(p)
        /\ alert_status[p] = "ok"
        /\ row.device_id = data[p].device_id
        /\ \E i \in 1..Len(alerts_to_create[p]) : RowOf(row, alerts_to_create[p][i])

\* C20: in every request the record is committed after the classification, which
\* read an earlier row and is the one the record stores; thresholds are evaluated
\* and alerts dispatched only for a committed record; the 200 response comes
\* after the alert step and returns the classification the record stores.
C20_StepOrder ==
    /\ \A p \in Calls :
        /\ Ingested(p) =>
            /\ Classified(p)
            /\ last_reading[p] < sensor_record[p]
            /\ Ratio(sensor_data[sensor_record[p]].compression_ratio,
                     sensor_data[sensor_record[p]].is_predicted) = compression[p]
        /\ AlertStepBegun(p) => Ingested(p)
        /\ (dispatched[p] > 0 \/ SendsOf(p) # <<>>) =>
                /\ ListBuilt(p)
                /\ Len(SendsOf(p)) <= dispatched[p]
        /\ resp[p] = 200 =>
            /\ Ingested(p)
            /\ alert_status[p] # "none"
            /\ dispatched[p] = Len(alerts_to_create[p])
            /\ Len(SendsOf(p)) = Len(CriticalOf(p))
            /\ returned[p] = Ratio(sensor_data[sensor_record[p]].compression_ratio,
                                   sensor_data[sensor_record[p]].is_predicted)
        /\ returned[p] # NoBody => resp[p] = 200
    /\ \A i \in 1..Len(alerts) : AlertHasRecord(alerts[i])

C20_Witness ==
    \E p \in Calls :
        /\ pc[p] = "done"
        /\ resp[p] = 200
        /\ last_reading[p] = 1
        /\ sensor_record[p] = 2
        /\ returned[p] = Ratio(65, FALSE)
        /\ alert_status[p] = "ok"
        /\ Len(SendsOf(p)) = 2
        /\ devices[data[p].device_id].last_seen = 2

\* The reading's values, as numbers, breach the bounds.
BreachesTemperature(d) ==
    /\ d.temperature.tag = "num"
    /\ \/ d.temperature.val < thresholds.temperature_min
       \/ d.temperature.val > thresholds.temperature_max
BreachesMoisture(d) ==
    /\ d.soil_moisture.tag = "num"
    /\ d.soil_moisture.val < thresholds.moisture_min

\* Position of the first send of the given kind among the sends of request p,
\* 0 when there is none.
FirstSend(p, Kind(_)) ==
    LET at == {k \in 1..Len(SendsOf(p)) : Kind([type |-> SendsOf(p)[k].alert_type])}
    IN IF at = {} THEN 0 ELSE CHOOSE k \in at : \A j \in at : k <= j

\* C21: a reading that breaches both the temperature bounds and the
\* soil-moisture minimum gets both alerts in one list, the temperature alert
\* first; the temperature alert is sent (when critical) before the soil-moisture
\* alert is, and is stored before it.
C21_TemperatureBeforeMoisture ==
    \A p \in Calls :
        (ListBuilt(p) /\ BreachesTemperature(data[p]) /\ BreachesMoisture(data[p])) =>
            /\ Len(alerts_to_create[p]) = 2
            /\ IsTemperatureAlert(alerts_to_create[p][1])
            /\ IsMoistureAlert(alerts_to_create[p][2])
            /\ FirstSend(p, IsMoistureAlert) # 0 =>
                    (alerts_to_create[p][1].severity = "critical" =>
                        /\ FirstSend(p, IsTemperatureAlert) # 0
                        /\ FirstSend(p, IsTemperatureAlert) < FirstSend(p, IsMoistureAlert))
            /\ alert_status[p] = "ok" =>
                    /\ Len(alerts) = 2
                    /\ RowOf(alerts[1], alerts_to_create[p][1])
                    /\ RowOf(alerts[2], alerts_to_create[p][2])
                    /\ alerts[1].id < alerts[2].id

\* Every row of the table before the step is in the same place after it.
Kept(table) ==
    /\ Len(table') >= Len(table)
    /\ \A i \in 1..Len(table) : table'[i] = table[i]

\* C22: no step deletes or changes a stored reading or a stored alert; the
\* readings grow by one row at a time, each successful request has a row of its
\* own, and there are as many rows as requests that committed one.
C22_AppendOnly ==
    /\ [](/\ Len(sensor_data) = Cardinality({p \in Calls : Ingested(p)})
          /\ \A p \in Calls :
                /\ resp[p] = 200 => Ingested(p)
                /\ Ingested(p) => sensor_data[sensor_record[p]].id = sensor_record[p]
          /\ \A p, q \in Calls :
                (p # q /\ Ingested(p)) => sensor_record[p] # sensor_record[q])
    /\ [][/\ Kept(sensor_data)
          /\ Kept(alerts)
          /\ Len(sensor_data') <= Len(sensor_data) + 1]_vars

C22_Witness ==
    /\ \A p \in Calls : pc[p] = "done"
    /\ Cardinality({p \in Calls : resp[p] = 200}) = 2
    /\ Len(sensor_data) = 2
    /\ sensor_data[1].device_id = sensor_data[2].device_id
    /\ Len(alerts) = 4

\* C23: every stored row and every classification in a 200 response has a
\* compression_ratio of 0, 65 or 85, and is_predicted exactly when it is 85.
ValidClassification(c) ==
    /\ c.compression_ratio \in {0, 65, 85}
    /\ c.is_predicted <=> (c.compression_ratio = 85)

C23_ClassificationRange ==
    /\ \A i \in 1..Len(sensor_data) : ValidClassification(sensor_data[i])
    /\ \A p \in Calls : resp[p] = 200 => ValidClassification(returned[p])

C23_Witness ==
    \E p \in Calls :
        /\ resp[p] = 200
        /\ returned[p].compression_ratio = 85
        /\ returned[p].is_predicted
        /\ sensor_data[sensor_record[p]].compression_ratio = 85
        /\ sensor_data[1].compression_ratio = 0
        /\ ~sensor_data[1].is_predicted

\* C24: once the alert step of a request is over, every alert a send was
\* attempted for is a committed alert row of the request's device.
C24_SentOnlyIfPersisted ==
    \A p \in Calls :
        pc[p] \in {"respond", "done"} =>
            \A k \in 1..Len(SendsOf(p)) :
                \E i \in 1..Len(alerts) :
                    /\ alerts[i].alert_type = SendsOf(p)[k].alert_type
                    /\ alerts[i].device_id = data[p].device_id
                    /\ alerts[i].user_id = data[p].user_id

\* C25: after a request answered 200, a reading whose temperature is out of
\* bounds has a temperature alert of its device in the alerts table, and one
\* whose soil_moisture is under the minimum has a soil-moisture alert of its
\* device, whatever user_id the request carried.
C25_BreachLeavesAlert ==
    \A p \in Calls :
        resp[p] = 200 =>
            /\ BreachesTemperature(data[p]) =>
                \E i \in 1..Len(alerts) :
                    /\ alerts[i].device_id = data[p].device_id
                    /\ alerts[i].alert_type \in {"temperature_low", "temperature_high"}
            /\ BreachesMoisture(data[p]) =>
                \E i \in 1..Len(alerts) :
                    /\ alerts[i].device_id = data[p].device_id
                    /\ alerts[i].alert_type = "moisture_low"

\* The reading whose ingest stored row i: a request's, or the first reading of
\* the drifting device.
ReadingOf(i) ==
    IF \E p \in Calls : sensor_record[p] = i
    THEN data[CHOOSE p \in Calls : sensor_record[p] = i]
    ELSE FirstReading

\* C26 as stated: a reading within the four thresholds of the reading before it
\* is classified predicted.
C26_DriftFromReading ==
    \A p \in Calls :
        (/\ Classified(p)
         /\ "fetch" \notin failed[p]
         /\ last_reading[p] # 0
         /\ RuleSaysPredicted(ReadingOf(last_reading[p]), data[p])) =>
            compression[p] = Ratio(85, TRUE)

\* C26, amended: the classification compares the reading with the row stored
\* just before it (the previous reading to two decimals) and with nothing older:
\* within the four thresholds of that row it is predicted, however far it is
\* from the first reading, and otherwise it is transmitted.
C26_DriftFromStored ==
    \A p \in Calls :
        (Classified(p) /\ "fetch" \notin failed[p]) =>
            /\ pc[p] = "persist" => last_reading[p] = Len(sensor_data)
            /\ Ingested(p) => last_reading[p] = sensor_record[p] - 1
            /\ SameValuesToTwoDecimals(sensor_data[last_reading[p]],
                                       ReadingOf(last_reading[p]))
            /\ compression[p] =
                    IF RuleSaysPredicted(sensor_data[last_reading[p]], data[p])
                    THEN Ratio(85, TRUE) ELSE Ratio(65, FALSE)

C26_Witness ==
    \E p \in Calls :
        /\ Ingested(p)
        /\ last_reading[p] = 2
        /\ sensor_data[2].is_predicted
        /\ compression[p] = Ratio(85, TRUE)
        /\ ~RuleSaysPredicted(sensor_data[1], data[p])
        /\ ~RuleSaysPredicted(FirstReading, data[p])

\* The latest row of the request's device stored before the request's own row.
PreviousRow(p) ==
    LET ids == {i \in 1..(sensor_record[p] - 1) :
                    sensor_data[i].device_id = data[p].device_id}
    IN IF ids = {} THEN 0 ELSE CHOOSE i \in ids : \A j \in ids : j <= i

\* C27: a registered device's last_seen is the commit time of its latest record
\* (the clock counts commits, so it is that record's id): both are written by
\* one commit or neither is.  A request for an unregistered device is answered
\* 200 with its record stored, the record is what the device's next reading is
\* classified against, and the devices table keeps its rows as they were.
C27_LastSeenWithRecord ==
    /\ DOMAIN devices = RegisteredDevices
    /\ clock = Len(sensor_data)
    /\ \A d \in RegisteredDevices : devices[d].last_seen = LastReading(d)
    /\ \A p \in Calls :
        /\ (pc[p] = "done" /\ failed[p] \cap {"device_query", "commit"} = {}
                /\ BothIds \subseteq data[p].keys) =>
                /\ resp[p] = 200
                /\ Ingested(p)
        /\ (Ingested(p) /\ "fetch" \notin failed[p]) =>
                /\ sensor_data[sensor_record[p]].device_id = data[p].device_id
                /\ last_reading[p] = PreviousRow(p)

C27_Witness ==
    \E p, q \in Calls :
        /\ data[p].device_id \notin RegisteredDevices
        /\ data[q].device_id = data[p].device_id
        /\ resp[p] = 200
        /\ resp[q] = 200
        /\ last_reading[q] = sensor_record[p]
        /\ compression[q] = Ratio(85, TRUE)
        /\ devices = [d \in RegisteredDevices |-> [last_seen |-> 0]]

====
